---- MODULE Spec2Model ----
(***************************************************************************)
(* Adaptive sequencing, memory and evaluation engine of HACF               *)
(* (advanced_hacf.py).                                                     *)
(*                                                                         *)
(* Numbers that are floats in the source are kept exact: probabilities are *)
(* replaced by the outcome of each roll, satisfaction and metric scores    *)
(* are hundredths (0.7 is 70), weights are hundredths, industry            *)
(* multipliers are tenths, and quotients are kept as fractions.            *)
(***************************************************************************)
EXTENDS Integers, Sequences, FiniteSets, TLC

VARIABLES
    project,      \* the Project row handed to the engine
    session,      \* the HACFSession row: id and current_layer
    criteria,     \* ProprietaryEvaluation.LAYER_CRITERIA[k]['criteria'], k in 0..11
    last,         \* the last call: operation, arguments and returned value
    created       \* the records create_memory returned for the session, in order

vars == <<project, session, criteria, last, created>>

Stages == 0..11

(***************************************************************************)
(* AdaptiveLayerSequencer: static tables                                   *)
(***************************************************************************)

\* COMPLEXITY_FACTORS thresholds
code_size_threshold_low == 1000
code_size_threshold_medium == 5000
feature_count_threshold_low == 3
feature_count_threshold_medium == 8
integration_count_threshold_low == 1
integration_count_threshold_medium == 3

\* COMPLEXITY_FACTORS['domain_complexity'], in the dict's iteration order
domain_complexity_levels == <<"low", "medium", "high">>

domain_complexity_table ==
    [low    |-> {"landing_page", "portfolio", "simple_blog"},
     medium |-> {"e_commerce", "content_management", "data_visualization"},
     high   |-> {"financial_system", "healthcare_app", "ai_system", "security_critical"}]

\* LAYER_TRANSITION_NETWORKS: entry k+1 of a network is the list of stage k
LAYER_TRANSITION_NETWORKS ==
    [standard |->
        << <<1>>, <<2>>, <<3>>, <<4>>, <<5>>, <<6>>,
           <<7>>, <<8>>, <<9>>, <<10>>, <<11>>, <<>> >>,
     agile |->
        << <<1>>, <<2, 3>>, <<3, 4>>, <<4, 5>>, <<3, 5, 6>>, <<4, 6, 7>>,
           <<5, 7, 8>>, <<5, 6, 8, 9>>, <<7, 9, 10>>, <<10, 7, 8>>,
           <<11, 7, 8, 9>>, <<7, 10>> >>,
     research |->
        << <<1, 2>>, <<0, 2, 3, 4>>, <<1, 3, 4, 5>>, <<1, 2, 4, 5, 6>>,
           <<2, 3, 5, 6, 7>>, <<3, 4, 6, 7, 8>>, <<4, 5, 7, 8, 9>>,
           <<5, 6, 8, 9, 10>>, <<6, 7, 9, 10, 11>>, <<7, 8, 10, 11>>,
           <<7, 8, 9, 11>>, <<7, 8, 9, 10>> >>,
     security_focused |->
        << <<1>>, <<2>>, <<3>>, <<4>>, <<5, 6>>, <<6, 3, 4>>,
           <<7, 5, 4>>, <<8, 6, 5>>, <<9, 7, 6>>, <<10, 7, 8>>,
           <<11, 7>>, <<7, 10>> >>,
     iterative_development |->
        << <<1>>, <<2>>, <<3>>, <<4>>, <<5>>, <<5, 6>>,
           <<5, 7>>, <<5, 6, 8>>, <<7, 9>>, <<5, 7, 8, 10>>,
           <<7, 11>>, <<5, 7, 10>> >>]

NetworkNames == DOMAIN LAYER_TRANSITION_NETWORKS

\* transition_network.get(k, []) reading the entry of the stage before k
transition_get_previous_stage(network_type, k) ==
    IF k \in Stages
    THEN LAYER_TRANSITION_NETWORKS[network_type][IF k = 0 THEN 1 ELSE k]
    ELSE <<>>

\* transition_network.get(k, [])
transition_get(network_type, k) ==
    IF k \in Stages THEN LAYER_TRANSITION_NETWORKS[network_type][k + 1] ELSE <<>>

\* INDUSTRY_ADJUSTMENTS[industry]['preferred_network']
preferred_network ==
    [healthcare |-> "security_focused",
     finance    |-> "security_focused",
     education  |-> "agile",
     startup    |-> "iterative_development",
     government |-> "standard",
     research   |-> "research"]

(***************************************************************************)
(* Projects.  A project is absent (None), or carries a metadata column     *)
(* that is empty, does not parse to a JSON object, or parses to a map.     *)
(* present: the keys of the map; illtyped: pairs <<key, kind>> for the     *)
(* keys whose value is of the wrong kind, with the kind it has ("string",  *)
(* "number", "null").  For a string where a list belongs, the features or  *)
(* integrations field holds the length of the string.                      *)
(***************************************************************************)
MetaFields == {"domain", "industry", "estimated_code_size", "features",
               "integrations", "project_type"}

NoProject == [kind |-> "none"]
NoMetadata == [kind |-> "absent"]
BadMetadata == [kind |-> "malformed"]

Meta(present, illtyped, domain, industry, project_type, size, nfeat, nint) ==
    [kind |-> "dict", present |-> present, illtyped |-> illtyped,
     domain |-> domain, industry |-> industry, project_type |-> project_type,
     estimated_code_size |-> size, features |-> nfeat, integrations |-> nint]

\* json.loads(project.metadata) if project.metadata else {}
parses(p) == p.kind \in {"absent", "dict"}

\* metadata.get(key, default)
meta_get(p, key, default) ==
    IF p.kind = "dict" /\ key \in p.present THEN p[key] ELSE default

DefaultProfile ==
    [overall |-> "medium", factors |-> <<>>, score |-> 0,
     industry |-> "technology", has_industry |-> FALSE]

\* complexity_scores with high scored as medium
level_score_high_as_medium(level) ==
    CASE level = "low" -> 1 [] level = "medium" -> 2 [] OTHER -> 2

\* complexity_scores
level_score(level) == CASE level = "low" -> 1 [] level = "medium" -> 2 [] OTHER -> 3

\* the first level, in table order, whose domain list holds the domain
RECURSIVE domain_lookup(_, _)
domain_lookup(domain, i) ==
    IF i > Len(domain_complexity_levels) THEN "medium"
    ELSE IF domain \in domain_complexity_table[domain_complexity_levels[i]]
         THEN domain_complexity_levels[i]
         ELSE domain_lookup(domain, i + 1)

\* the keys of the map whose value is of the wrong kind
illtyped_keys(p) == {x[1] : x \in p.illtyped} \cap p.present

\* does an operation of lines 377-401 raise on the value of a key:
\* `code_size < threshold` on a string or null, len() of a number or null
raises_on(key, value_kind) ==
    \/ key = "estimated_code_size" /\ value_kind \in {"string", "null"}
    \/ key \in {"features", "integrations"} /\ value_kind \in {"number", "null"}

score_raises(p) ==
    p.kind = "dict" /\ \E x \in p.illtyped : x[1] \in p.present /\ raises_on(x[1], x[2])

\* calculate_project_complexity; score is in hundredths
calculate_project_complexity(p) ==
    IF p.kind = "none" THEN DefaultProfile
    ELSE IF ~parses(p) THEN DefaultProfile
    ELSE IF score_raises(p) THEN DefaultProfile
    ELSE
      LET domain == meta_get(p, "domain", "general")
          industry == meta_get(p, "industry", "technology")
          code_size == meta_get(p, "estimated_code_size", 4500)
          feature_count == meta_get(p, "features", 0)
          integration_count == meta_get(p, "integrations", 0)
          f_size == IF code_size < code_size_threshold_low THEN "low"
                    ELSE IF code_size < code_size_threshold_medium THEN "medium"
                    ELSE "high"
          f_domain == IF p.kind = "dict" /\ "domain" \in illtyped_keys(p)
                      THEN "medium"
                      ELSE domain_lookup(domain, 1)
          f_feat == IF feature_count < feature_count_threshold_low THEN "low"
                    ELSE IF feature_count < feature_count_threshold_medium THEN "medium"
                    ELSE "high"
          f_int == IF integration_count < integration_count_threshold_low THEN "low"
                   ELSE IF integration_count < integration_count_threshold_medium
                        THEN "medium"
                   ELSE "high"
          weighted_score == level_score(f_size) * 25 + level_score(f_domain) * 35
                            + level_score(f_feat) * 20 + level_score(f_int) * 20
          overall == IF weighted_score < 167 THEN "low"
                     ELSE IF weighted_score > 233 THEN "high"
                     ELSE "medium"
      IN [overall |-> overall,
          factors |-> [code_size |-> f_size, domain_complexity |-> f_domain,
                       feature_count |-> f_feat, integration_count |-> f_int],
          score |-> weighted_score,
          industry |-> industry, has_industry |-> TRUE]

\* lines 464-479: the industry's preferred network, overridden by project type
select_network(industry, project_type) ==
    IF project_type = "research_poc" THEN "research"
    ELSE IF project_type = "security_critical" THEN "security_focused"
    ELSE IF project_type = "mvp" \/ project_type = "prototype"
         THEN "iterative_development"
    ELSE IF project_type = "agile_project" THEN "agile"
    ELSE IF industry \in DOMAIN preferred_network THEN preferred_network[industry]
    ELSE "standard"

\* the network determine_layer_sequence works on for a project whose
\* metadata parses
network_of(p) ==
    select_network(calculate_project_complexity(p).industry,
                   meta_get(p, "project_type", "web_application"))

\* the step cap of the planning loop
MaxPathLen == 10

RepeatRolls == [1..(MaxPathLen - 1) -> BOOLEAN]

roll_at(rolls, i) == IF i \in DOMAIN rolls THEN rolls[i] ELSE FALSE

\* lines 540-550 with the first edge replaced by the last one
plan_next_last_edge(network_type, current_layer) ==
    LET possible_next_layers == transition_get(network_type, current_layer)
    IN IF possible_next_layers = <<>> THEN current_layer + 1
       ELSE possible_next_layers[Len(possible_next_layers)]

\* lines 540-550: the stage the loop moves to, the first listed transition or
\* the following stage when none is listed
plan_next(network_type, current_layer) ==
    LET possible_next_layers == transition_get(network_type, current_layer)
    IN IF possible_next_layers = <<>> THEN current_layer + 1
       ELSE possible_next_layers[1]

\* lines 556-559 without the complexity test
plan_repeats_any_complexity(network_type, overall_complexity, current_layer, roll) ==
    /\ network_type \in {"agile", "iterative_development"}
    /\ current_layer \in {3, 4}
    /\ roll

\* lines 556-559: is the stage just appended appended again; roll is the
\* outcome of random.random() < 0.4
plan_repeats(network_type, overall_complexity, current_layer, roll) ==
    /\ overall_complexity = "high"
    /\ network_type \in {"agile", "iterative_development"}
    /\ current_layer \in {3, 4}
    /\ roll

\* line 539 without the test for stage 5
plan_continues_past_five(current_layer, path) == Len(path) < MaxPathLen

\* line 539: the condition of the planning loop
plan_continues(current_layer, path) == current_layer # 5 /\ Len(path) < MaxPathLen

\* lines 539-560: the planning loop; rolls[i] is the roll of iteration i
RECURSIVE plan_loop(_, _, _, _, _, _)
plan_loop(network_type, overall_complexity, current_layer, path, rolls, i) ==
    IF plan_continues(current_layer, path)
    THEN IF transition_get(network_type, current_layer) = <<>> /\ ~(current_layer < 5)
         THEN path
         ELSE
           LET next == plan_next(network_type, current_layer)
               path1 == Append(path, next)
               path2 == IF plan_repeats(network_type, overall_complexity, next,
                                        roll_at(rolls, i))
                        THEN Append(path1, next)
                        ELSE path1
           IN plan_loop(network_type, overall_complexity, next, path2, rolls, i + 1)
    ELSE path

\* the except branch of determine_layer_sequence
DefaultSequence == <<1, 2, 3, 4, 5>>

\* feedback maps: None, {}, a map without 'satisfaction', a map with it
NoFeedback == [kind |-> "none"]
EmptyFeedback == [kind |-> "empty"]
CommentFeedback == [kind |-> "nosat"]
Satisfaction(s) == [kind |-> "sat", satisfaction |-> s]

\* `if feedback and session_id`
truthy(feedback, session_id) ==
    feedback.kind \in {"nosat", "sat"} /\ session_id # "none"

\* feedback.get('satisfaction', 0.7)
satisfaction_of(feedback) ==
    IF feedback.kind = "sat" THEN feedback.satisfaction ELSE 70

Range(s) == {s[i] : i \in DOMAIN s}

\* [layer for layer in possible_next_layers if layer != standard_next_layer]
alternatives_of(possible_next_layers) ==
    SelectSeq(possible_next_layers, LAMBDA l : l # possible_next_layers[1])

\* line 495: the stage the feedback branch starts from
feedback_current_layer == 1

\* lines 486-531: the feedback branch.  rnd.alt_low, rnd.redo and rnd.alt_mid
\* are the outcomes of the three random.random() comparisons, rnd.pick the
\* index random.choice draws
select_next(network_type, feedback, rnd) ==
    LET satisfaction == satisfaction_of(feedback)
        current_layer == feedback_current_layer
        possible_next_layers == transition_get(network_type, current_layer)
    IN IF possible_next_layers = <<>> THEN <<5>>
       ELSE
         LET standard_next_layer == possible_next_layers[1]
             alternatives == alternatives_of(possible_next_layers)
             choice == alternatives[((rnd.pick - 1) % Len(alternatives)) + 1]
         IN IF satisfaction > 80 THEN <<standard_next_layer>>
            ELSE IF /\ satisfaction < 40
                    /\ Len(possible_next_layers) > 1
                    /\ alternatives # <<>>
                    /\ rnd.alt_low
                 THEN <<choice>>
            ELSE IF satisfaction < 40 /\ rnd.redo THEN <<current_layer>>
            ELSE IF /\ Len(possible_next_layers) > 1
                    /\ alternatives # <<>>
                    /\ rnd.alt_mid
                 THEN <<choice>>
            ELSE <<standard_next_layer>>

\* determine_layer_sequence(project, session_id, feedback)
determine_layer_sequence(p, session_id, feedback, rnd) ==
    IF p.kind = "none" \/ ~parses(p) THEN DefaultSequence
    ELSE
      LET complexity == calculate_project_complexity(p)
          network_type == network_of(p)
      IN IF truthy(feedback, session_id)
         THEN select_next(network_type, feedback, rnd)
         ELSE plan_loop(network_type, complexity.overall, 1, <<1>>, rnd.repeat, 1)

(***************************************************************************)
(* ProprietaryEvaluation: static tables                                    *)
(***************************************************************************)

Dimensions == <<"completeness", "correctness", "efficiency", "innovation",
                "maintainability", "usability">>

\* EVALUATION_DIMENSIONS[d]['weight'], hundredths
EVALUATION_DIMENSIONS ==
    [completeness |-> 25, correctness |-> 25, efficiency |-> 15,
     innovation |-> 10, maintainability |-> 15, usability |-> 10]

\* LAYER_CRITERIA[k]['criteria'] as the class body sets it; entry k+1 is stage k
LAYER_CRITERIA_criteria ==
    << <<"stakeholder_validation", "requirement_completeness",
         "feasibility_assessment", "acceptance_criteria_clarity",
         "constraint_identification">>,
       <<"requirement_clarity", "scope_definition", "constraint_identification",
         "user_story_completeness", "feasibility_assessment">>,
       <<"market_analysis_depth", "competitor_evaluation", "technology_assessment",
         "feasibility_validation", "risk_identification">>,
       <<"architecture_soundness", "technical_feasibility",
         "scalability_consideration", "dependency_management",
         "interface_definition">>,
       <<"concept_validation", "visual_representation", "implementation_fidelity",
         "user_feedback_collection", "rapid_iteration">>,
       <<"code_functionality", "api_implementation", "error_handling",
         "coding_standards", "test_coverage">>,
       <<"test_coverage", "edge_case_handling", "integration_validation",
         "security_testing", "performance_testing">>,
       <<"performance_improvement", "security_hardening", "resource_usage",
         "error_reduction", "edge_case_handling">>,
       <<"infrastructure_configuration", "ci_cd_pipeline_setup",
         "environment_provisioning", "deployment_automation",
         "rollback_procedures">>,
       <<"documentation_quality", "code_organization", "deployment_readiness",
         "user_guide_clarity", "overall_cohesion">>,
       <<"monitoring_coverage", "analytics_implementation",
         "feedback_collection_mechanisms", "alerting_system_setup",
         "dashboard_usability">>,
       <<"maintenance_planning", "roadmap_development",
         "technical_debt_management", "scalability_assessment",
         "long_term_sustainability">> >>

\* LAYER_CRITERIA[k]['dimension_weights'], hundredths; entry k+1 is stage k
LAYER_CRITERIA_dimension_weights ==
    << [quality |-> 35, completeness |-> 30, clarity |-> 25, efficiency |-> 10],
       [completeness |-> 35, correctness |-> 20, efficiency |-> 5,
        innovation |-> 20, maintainability |-> 5, usability |-> 15],
       [completeness |-> 25, correctness |-> 30, efficiency |-> 10,
        innovation |-> 20, maintainability |-> 5, usability |-> 10],
       [completeness |-> 20, correctness |-> 35, efficiency |-> 15,
        innovation |-> 15, maintainability |-> 10, usability |-> 5],
       [completeness |-> 15, correctness |-> 20, efficiency |-> 10,
        innovation |-> 30, maintainability |-> 5, usability |-> 20],
       [completeness |-> 25, correctness |-> 30, efficiency |-> 15,
        innovation |-> 5, maintainability |-> 20, usability |-> 5],
       [completeness |-> 25, correctness |-> 40, efficiency |-> 15,
        innovation |-> 5, maintainability |-> 10, usability |-> 5],
       [completeness |-> 15, correctness |-> 25, efficiency |-> 30,
        innovation |-> 10, maintainability |-> 15, usability |-> 5],
       [completeness |-> 20, correctness |-> 30, efficiency |-> 25,
        innovation |-> 5, maintainability |-> 15, usability |-> 5],
       [completeness |-> 25, correctness |-> 15, efficiency |-> 10,
        innovation |-> 5, maintainability |-> 25, usability |-> 20],
       [completeness |-> 20, correctness |-> 20, efficiency |-> 15,
        innovation |-> 10, maintainability |-> 15, usability |-> 20],
       [completeness |-> 15, correctness |-> 15, efficiency |-> 10,
        innovation |-> 15, maintainability |-> 35, usability |-> 10] >>

\* ProprietaryEvaluation.INDUSTRY_ADJUSTMENTS[i]['additional_criteria']
additional_criteria ==
    [healthcare |-> <<"hipaa_compliance", "patient_data_security",
                      "clinical_workflow_integration">>,
     finance    |-> <<"transaction_security", "audit_trail_completeness",
                      "regulatory_compliance">>,
     education  |-> <<"accessibility_compliance", "learning_outcome_alignment",
                      "student_engagement">>]

\* ProprietaryEvaluation.INDUSTRY_ADJUSTMENTS[i]['dimension_weights'], tenths
industry_dimension_weights ==
    [healthcare |-> [correctness |-> 13, efficiency |-> 9, usability |-> 12],
     finance    |-> [correctness |-> 14, efficiency |-> 11, innovation |-> 8],
     education  |-> [usability |-> 14, completeness |-> 11, efficiency |-> 9]]

EvaluationIndustries == DOMAIN additional_criteria

AllCriteria ==
    UNION ({Range(LAYER_CRITERIA_criteria[i]) : i \in 1..12}
           \cup {Range(additional_criteria[i]) : i \in EvaluationIndustries})

(***************************************************************************)
(* ProprietaryEvaluation: evaluate_layer_output                            *)
(***************************************************************************)

\* Python's `x in c` on strings
contains(c, x) ==
    \E i \in 1..(Len(c) - Len(x) + 1) : SubSeq(c, i, i + Len(x) - 1) = x

\* the substrings of dimension_criteria_map, per dimension
dimension_keywords ==
    [completeness    |-> {"completeness", "coverage", "scope", "requirement"},
     correctness     |-> {"correctness", "accuracy", "compliance", "soundness"},
     efficiency      |-> {"efficiency", "performance", "resource", "optimization"},
     innovation      |-> {"innovation", "creative", "unique"},
     maintainability |-> {"maintainability", "documentation", "organization"},
     usability       |-> {"usability", "user", "interface", "experience"}]

\* lines 1353-1360: where a criterion that matched no list is appended
fallback_dimension(c) ==
    IF contains(c, "security") \/ contains(c, "error") THEN "correctness"
    ELSE IF contains(c, "test") THEN "maintainability"
    ELSE "completeness"

\* for every criterion name: the dimensions whose comprehension keeps it, and
\* the dimension it is appended to when none does
criterion_table ==
    [c \in AllCriteria |->
        [listed |-> {d \in Range(Dimensions) :
                        \E x \in dimension_keywords[d] : contains(c, x)},
         fallback |-> fallback_dimension(c)]]

\* is occurrence i of the criteria list a member of dimension d's list:
\* the comprehension keeps every occurrence; the second loop appends a
\* criterion only while it is in no list yet, so only its first occurrence
in_dimension(crit, i, d) ==
    LET c == crit[i]
    IN \/ d \in criterion_table[c].listed
       \/ /\ criterion_table[c].listed = {}
          /\ criterion_table[c].fallback = d
          /\ \A j \in 1..(i - 1) : crit[j] # c

\* metrics.get(c, 0.0)
metric_get(metrics, c) == IF c \in DOMAIN metrics THEN metrics[c] ELSE 0

RECURSIVE dimension_sum(_, _, _, _)
dimension_sum(metrics, crit, d, i) ==
    IF i > Len(crit) THEN 0
    ELSE (IF in_dimension(crit, i, d) THEN metric_get(metrics, crit[i]) ELSE 0)
         + dimension_sum(metrics, crit, d, i + 1)

dimension_count(crit, d) == Cardinality({i \in 1..Len(crit) : in_dimension(crit, i, d)})

\* _calculate_dimension_scores with 1.0 as the score of a dimension with no
\* criteria
calculate_dimension_scores_default_one(metrics, crit) ==
    [d \in Range(Dimensions) |->
        IF dimension_count(crit, d) > 0
        THEN <<dimension_sum(metrics, crit, d, 1), dimension_count(crit, d)>>
        ELSE <<100, 1>>]

\* _calculate_dimension_scores: per dimension the fraction <<sum, count>> of
\* hundredths, <<75, 1>> for a dimension with no criteria
calculate_dimension_scores(metrics, crit) ==
    [d \in Range(Dimensions) |->
        IF dimension_count(crit, d) > 0
        THEN <<dimension_sum(metrics, crit, d, 1), dimension_count(crit, d)>>
        ELSE <<75, 1>>]

\* lines 1255-1261: the industry of the project, "" for None
evaluation_industry(p) ==
    IF p.kind = "dict" /\ "industry" \in p.present THEN p.industry ELSE ""

\* LAYER_CRITERIA.get(layer, LAYER_CRITERIA[1]): the stage whose entry is used
layer_config_stage(layer) == IF layer \in Stages THEN layer ELSE 1

industry_applies(industry) == industry # "" /\ industry \in EvaluationIndustries

RECURSIVE sum_of(_, _)
sum_of(f, S) ==
    IF S = {} THEN 0
    ELSE LET x == CHOOSE y \in S : TRUE IN f[x] + sum_of(f, S \ {x})

\* lines 1276-1279: weight * adjustment for every key of the stage's
\* dimension_weights, in thousandths
adjusted_weights(layer_weights, industry) ==
    [d \in DOMAIN layer_weights |->
        layer_weights[d] *
            (IF d \in DOMAIN industry_dimension_weights[industry]
             THEN industry_dimension_weights[industry][d] ELSE 10)]

\* lines 1266-1283 and 1296: the weight multiplied with dimension d's score,
\* as the fraction <<numerator, denominator>>
used_weight(layer_weights, industry, d) ==
    IF industry_applies(industry)
    THEN LET adj == adjusted_weights(layer_weights, industry)
             weight_sum == sum_of(adj, DOMAIN adj)
         IN IF d \in DOMAIN adj THEN <<adj[d], weight_sum>>
            ELSE <<EVALUATION_DIMENSIONS[d], 100>>
    ELSE IF d \in DOMAIN layer_weights THEN <<layer_weights[d], 100>>
         ELSE <<EVALUATION_DIMENSIONS[d], 100>>

used_weights(layer, industry) ==
    [d \in Range(Dimensions) |->
        used_weight(LAYER_CRITERIA_dimension_weights[layer_config_stage(layer) + 1],
                    industry, d)]

\* line 1273: criteria.extend(...) on the list object of the class table
extended_criteria(crit, industry) ==
    IF industry_applies(industry) THEN crit \o additional_criteria[industry]
    ELSE crit

RECURSIVE gcd(_, _)
gcd(a, b) == IF b = 0 THEN a ELSE gcd(b, a % b)

lcm(a, b) == (a * b) \div gcd(a, b)

RECURSIVE lcm_of(_, _)
lcm_of(f, S) ==
    IF S = {} THEN 1
    ELSE LET x == CHOOSE y \in S : TRUE IN lcm(f[x][2], lcm_of(f, S \ {x}))

\* lines 1294-1297: the sum over the six dimensions of score * weight, as the
\* fraction <<numerator, denominator>>
overall_score(dimension_scores, weights) ==
    LET L == lcm_of(dimension_scores, Range(Dimensions))
        W == lcm_of(weights, Range(Dimensions))
        term == [d \in Range(Dimensions) |->
                    dimension_scores[d][1] * (L \div dimension_scores[d][2])
                    * weights[d][1] * (W \div weights[d][2])]
    IN <<sum_of(term, Range(Dimensions)), 100 * L * W>>

\* _generate_simulated_metrics: a score in [0.6, 0.95) for every criterion;
\* sim[i] is the draw for the criterion at position i
simulated_metrics(crit, sim) ==
    [c \in Range(crit) |->
        LET i == CHOOSE j \in 1..Len(crit) :
                    crit[j] = c /\ \A h \in (j + 1)..Len(crit) : crit[h] # c
        IN sim[((i - 1) % Len(sim)) + 1]]

\* criterion.replace('_', ' ')
RECURSIVE replace_underscores(_)
replace_underscores(str) ==
    IF Len(str) = 0 THEN ""
    ELSE (IF SubSeq(str, 1, 1) = "_" THEN " " ELSE SubSeq(str, 1, 1))
         \o replace_underscores(SubSeq(str, 2, Len(str)))

\* lines 1386-1401: the recommendation for a criterion below 0.7
criterion_recommendation(c) ==
    IF contains(c, "requirement") \/ contains(c, "scope")
    THEN "Improve clarity and completeness of requirements definition"
    ELSE IF contains(c, "architecture")
    THEN "Refine system architecture to ensure technical feasibility and scalability"
    ELSE IF contains(c, "code") \/ contains(c, "implementation")
    THEN "Enhance code quality and implementation completeness"
    ELSE IF contains(c, "performance") \/ contains(c, "efficiency")
    THEN "Optimize for better performance and resource efficiency"
    ELSE IF contains(c, "security")
    THEN "Strengthen security measures and vulnerability protections"
    ELSE IF contains(c, "documentation")
    THEN "Improve documentation quality and completeness"
    ELSE IF contains(c, "test")
    THEN "Expand test coverage and test case variety"
    ELSE "Improve " \o replace_underscores(c) \o " in next iteration"

\* the recommendation for every criterion name
recommendation_table == [c \in AllCriteria |-> criterion_recommendation(c)]

\* lines 1407-1418: the recommendation for a dimension below 0.75
dimension_recommendation ==
    [completeness    |-> "Work on more comprehensive coverage of all requirements",
     correctness     |-> "Focus on technical accuracy and standards compliance",
     efficiency      |-> "Improve resource usage and performance optimization",
     innovation      |-> "Consider more creative or unique approaches",
     maintainability |-> "Enhance code organization and documentation",
     usability       |-> "Improve user experience and interface design"]

\* the criterion names in the order of the tables
RECURSIVE concat_lists(_, _)
concat_lists(lists, i) ==
    IF i > Len(lists) THEN <<>> ELSE lists[i] \o concat_lists(lists, i + 1)

\* the first occurrences of a list, in order
first_occurrences(list) ==
    LET keep == {i \in 1..Len(list) : \A j \in 1..(i - 1) : list[j] # list[i]}
    IN [k \in 1..Cardinality(keep) |->
          list[CHOOSE i \in keep : Cardinality({j \in keep : j < i}) = k - 1]]

CriteriaOrder ==
    first_occurrences(concat_lists(LAYER_CRITERIA_criteria, 1)
                      \o additional_criteria["healthcare"]
                      \o additional_criteria["finance"]
                      \o additional_criteria["education"])

\* metrics.items(): the keys in insertion order, each with its score as a
\* fraction; order holds the keys in that order.  Simulated metrics are
\* inserted in the order of the criteria list; a supplied map is taken to be
\* written in the order of the tables.
metrics_items(metrics, order) ==
    LET keys == SelectSeq(order, LAMBDA c : c \in DOMAIN metrics)
    IN [i \in 1..Len(keys) |-> <<keys[i], <<metrics[keys[i]], 1>> >>]

\* dimension_scores.items(): the six dimensions in the order of the map
dimension_items(dimension_scores) ==
    [i \in 1..Len(Dimensions) |-> <<Dimensions[i], dimension_scores[Dimensions[i]]>>]

\* a < b for fractions with positive denominators
score_less(a, b) == a[1] * b[2] < b[1] * a[2]

\* the item that a stable ascending sort by score puts first among the items
\* not taken yet: the earliest of those with the lowest score
first_sorted(items, taken) ==
    CHOOSE i \in (1..Len(items)) \ taken :
        \A j \in (1..Len(items)) \ taken :
            \/ j = i
            \/ score_less(items[i][2], items[j][2])
            \/ i < j /\ ~score_less(items[j][2], items[i][2])

\* sorted(items, key=lambda x: x[1])[:n], from the items not taken yet
RECURSIVE lowest_from(_, _, _)
lowest_from(items, n, taken) ==
    IF n = 0 \/ taken = 1..Len(items) THEN <<>>
    ELSE LET i == first_sorted(items, taken)
         IN <<items[i]>> \o lowest_from(items, n - 1, taken \cup {i})

lowest(items, n) == lowest_from(items, n, {})

\* lines 1377-1418: the list before line 1421
appended_recommendations(metrics, order, dimension_scores) ==
    LET lowest_metrics == lowest(metrics_items(metrics, order), 3)
        lowest_dimensions == lowest(dimension_items(dimension_scores), 2)
        below_metrics == SelectSeq(lowest_metrics, LAMBDA x : score_less(x[2], <<70, 1>>))
        below_dimensions == SelectSeq(lowest_dimensions,
                                      LAMBDA x : score_less(x[2], <<75, 1>>))
    IN [i \in 1..Len(below_metrics) |-> recommendation_table[below_metrics[i][1]]]
       \o [i \in 1..Len(below_dimensions) |-> dimension_recommendation[below_dimensions[i][1]]]

\* _generate_recommendations with line 1421 left out
generate_recommendations_with_duplicates(metrics, order, dimension_scores) ==
    appended_recommendations(metrics, order, dimension_scores)

\* _generate_recommendations: list(set(recommendations)); the order of the
\* result is that of a set, here the order of first occurrence
generate_recommendations(metrics, order, dimension_scores) ==
    first_occurrences(appended_recommendations(metrics, order, dimension_scores))

\* the metrics argument: None, or a map from criterion names to scores
NoMetrics == [kind |-> "none"]
Metrics(scores) == [kind |-> "map", scores |-> scores]

\* `if not metrics`
metrics_missing(supplied) ==
    supplied.kind = "none" \/ DOMAIN supplied.scores = {}

\* evaluate_layer_output on the criteria list `crit` of the class table;
\* supplied is the metrics argument, sim the simulated draws.  The returned
\* dict, with the evaluated list and the weights used.
evaluate_layer_output(p, layer, supplied, sim, crit) ==
    LET industry == evaluation_industry(p)
        evaluated == extended_criteria(crit, industry)
        weights == used_weights(layer, industry)
        metrics == IF metrics_missing(supplied)
                   THEN simulated_metrics(evaluated, sim)
                   ELSE supplied.scores
        dimension_scores == calculate_dimension_scores(metrics, evaluated)
        order == IF metrics_missing(supplied) THEN first_occurrences(evaluated)
                 ELSE CriteriaOrder
    IN [overall_score |-> overall_score(dimension_scores, weights),
        dimension_scores |-> dimension_scores,
        metric_scores |-> metrics,
        recommendations |-> generate_recommendations(metrics, order, dimension_scores),
        criteria |-> evaluated,
        weights |-> weights]

(***************************************************************************)
(* Inputs                                                                  *)
(***************************************************************************)

\* one industry per preferred network, and one that is not registered
IndustryInputs == {"healthcare", "education", "startup", "government",
                   "research", "retail"}

ProjectTypeInputs == {"research_poc", "security_critical", "mvp", "prototype",
                      "agile_project"}

\* factor fields of the metadata: none; a medium profile; the high profile
\* healthcare_app / 22000 / 9 features / 4 integrations; a code size of the
\* wrong kind
FactorInputs ==
    {[present |-> {}, illtyped |-> {},
      domain |-> "general", size |-> 4500, nfeat |-> 0, nint |-> 0],
     [present |-> {"domain", "estimated_code_size", "features", "integrations"},
      illtyped |-> {},
      domain |-> "e_commerce", size |-> 4500, nfeat |-> 3, nint |-> 1],
     [present |-> {"domain", "estimated_code_size", "features", "integrations"},
      illtyped |-> {},
      domain |-> "healthcare_app", size |-> 22000, nfeat |-> 9, nint |-> 4],
     [present |-> {"domain", "estimated_code_size"},
      illtyped |-> {<<"estimated_code_size", "string">>},
      domain |-> "healthcare_app", size |-> 0, nfeat |-> 0, nint |-> 0]}

\* a metadata map from an optional industry, an optional project type ("" for
\* a missing key) and factor fields
MetaOf(industry, project_type, f) ==
    Meta(f.present \cup (IF industry = "" THEN {} ELSE {"industry"})
                   \cup (IF project_type = "" THEN {} ELSE {"project_type"}),
         f.illtyped, f.domain, industry, project_type, f.size, f.nfeat, f.nint)

PlanProjects ==
    {NoProject, NoMetadata, BadMetadata}
    \cup {MetaOf(i, t, f) : i \in IndustryInputs \cup {""},
                            t \in ProjectTypeInputs \cup {""},
                            f \in FactorInputs}

NewSession == [id |-> "none", current_layer |-> 0]

Idle == [op |-> "idle"]

InitCriteria == [k \in Stages |-> LAYER_CRITERIA_criteria[k + 1]]

(***************************************************************************)
(* PlanInitialSequence: determine_layer_sequence(project)                  *)
(***************************************************************************)

\* the outcomes of the random draws of one call
Rnd(alt_low, redo, alt_mid, pick, repeat) ==
    [alt_low |-> alt_low, redo |-> redo, alt_mid |-> alt_mid, pick |-> pick,
     repeat |-> repeat]

PlanInitialSequence ==
    \E rolls \in RepeatRolls :
        /\ last' = [op |-> "plan",
                    result |-> determine_layer_sequence(project, "none", NoFeedback,
                                   Rnd(FALSE, FALSE, FALSE, 1, rolls))]
        /\ UNCHANGED <<project, session, criteria, created>>

InitPlan ==
    /\ project \in PlanProjects
    /\ session = NewSession
    /\ criteria = InitCriteria
    /\ last = Idle
    /\ created = <<>>

NextPlan == PlanInitialSequence

SpecPlan == InitPlan /\ [][NextPlan]_vars

(***************************************************************************)
(* SelectNextStage: determine_layer_sequence(project, session_id, feedback)*)
(***************************************************************************)

\* one project per kind of metadata, per transition network, and one whose
\* project type overrides its industry
SelectProjects ==
    {NoProject, NoMetadata, BadMetadata}
    \cup {MetaOf(i, "", f) :
            i \in {"government", "education", "research", "healthcare", "startup"},
            f \in {x \in FactorInputs : x.present = {}}}
    \cup {MetaOf("healthcare", "agile_project", f) :
            f \in {x \in FactorInputs : x.nfeat = 9}}

\* satisfaction values around the two thresholds, in hundredths
SatisfactionInputs == {10, 39, 40, 80, 81, 95}

FeedbackInputs ==
    {EmptyFeedback, CommentFeedback} \cup {Satisfaction(s) : s \in SatisfactionInputs}

\* the stages a session is at: the stage the feedback branch assumes, a
\* stage before it, one with a loop back in agile, and the last one
SessionStageInputs == {0, 1, 4, 11}

\* the most alternatives stage 1 has in any network
MaxAlternatives ==
    CHOOSE n \in 0..12 :
        /\ \A net \in NetworkNames :
              Len(transition_get(net, feedback_current_layer)) - 1 <= n
        /\ \E net \in NetworkNames :
              Len(transition_get(net, feedback_current_layer)) - 1 = n

AllRolls(b) == [i \in 1..(MaxPathLen - 1) |-> b]

SelectNextStage ==
    \E feedback \in FeedbackInputs :
        /\ IF truthy(feedback, session.id)
           THEN \E alt_low \in BOOLEAN, redo \in BOOLEAN, alt_mid \in BOOLEAN,
                   pick \in 1..MaxAlternatives :
                  LET rnd == Rnd(alt_low, redo, alt_mid, pick, AllRolls(FALSE))
                  IN last' = [op |-> "select", feedback |-> feedback, rnd |-> rnd,
                              result |-> determine_layer_sequence(
                                             project, session.id, feedback, rnd)]
           ELSE \E b \in BOOLEAN :
                  LET rnd == Rnd(FALSE, FALSE, FALSE, 1, AllRolls(b))
                  IN last' = [op |-> "select", feedback |-> feedback, rnd |-> rnd,
                              result |-> determine_layer_sequence(
                                             project, session.id, feedback, rnd)]
        /\ UNCHANGED <<project, session, criteria, created>>

InitSelect ==
    /\ project \in SelectProjects
    /\ session \in [id : {"s1"}, current_layer : SessionStageInputs]
    /\ criteria = InitCriteria
    /\ last = Idle
    /\ created = <<>>

NextSelect == SelectNextStage

SpecSelect == InitSelect /\ [][NextSelect]_vars

(***************************************************************************)
(* Evaluate: evaluate_layer_output(project, layer, output, metrics)        *)
(***************************************************************************)

\* the number of calls that may extend a criteria list of the class table
MaxExtends == 1

EvalProjects ==
    {BadMetadata}
    \cup {MetaOf(i, "", f) :
            i \in {"", "healthcare", "finance", "education", "retail"},
            f \in {x \in FactorInputs : x.present = {}}}

\* stage 0, whose weights name other dimensions; stage 1, the fallback entry;
\* and a stage that is not in the table
EvalLayers == {0, 1, 12}

\* supplied metrics: one score for every criterion name, or scores for the
\* stage's own five criteria only
UniformMetrics(v) == Metrics([c \in AllCriteria |-> v])

GradedMetrics(layer) ==
    LET base == LAYER_CRITERIA_criteria[layer_config_stage(layer) + 1]
    IN Metrics([c \in Range(base) |->
                  LET i == CHOOSE j \in 1..Len(base) : base[j] = c
                  IN 50 + 10 * i])

MetricsInputs(layer) ==
    {NoMetrics, UniformMetrics(100), GradedMetrics(layer)}

\* simulated draws, hundredths in [60, 95)
SimInputs == {<<60>>, <<60, 67, 74, 81, 88>>}

RECURSIVE total_len(_, _)
total_len(table, S) ==
    IF S = {} THEN 0
    ELSE LET k == CHOOSE x \in S : TRUE IN Len(table[k]) + total_len(table, S \ {k})

\* the calls that extended a list so far: each appends three criteria
extends_done == (total_len(criteria, Stages) - total_len(InitCriteria, Stages)) \div 3

Evaluate ==
    \E p \in EvalProjects, layer \in EvalLayers :
      \E supplied \in MetricsInputs(layer) :
        \E sim \in (IF metrics_missing(supplied) THEN SimInputs ELSE {<<60>>}) :
          LET k == layer_config_stage(layer)
              result == evaluate_layer_output(p, layer, supplied, sim, criteria[k])
          IN /\ industry_applies(evaluation_industry(p)) => extends_done < MaxExtends
             /\ project' = p
             /\ criteria' = [criteria EXCEPT ![k] = result.criteria]
             /\ last' = [op |-> "evaluate", layer |-> layer, metrics |-> supplied,
                         sim |-> sim, result |-> result]
             /\ UNCHANGED <<session, created>>

InitEval ==
    /\ project = NoProject
    /\ session = NewSession
    /\ criteria = InitCriteria
    /\ last = Idle
    /\ created = <<>>

NextEval == Evaluate

SpecEval == InitEval /\ [][NextEval]_vars

(***************************************************************************)
(* EvaluateStage: evaluate_layer_output on the output of the stage the     *)
(* session is at, for every stage of the table                             *)
(***************************************************************************)

\* a project without industry and one for every registered industry
EvalStageProjects ==
    {MetaOf(i, "", f) :
        i \in {"", "healthcare", "finance", "education"},
        f \in {x \in FactorInputs : x.present = {}}}

\* supplied metrics with every score at 0, every score at 1, or graded
StageMetricsInputs(layer) ==
    {NoMetrics, UniformMetrics(0), UniformMetrics(100), GradedMetrics(layer)}

EvaluateStage ==
    \E p \in EvalStageProjects :
      \E supplied \in StageMetricsInputs(session.current_layer) :
        \E sim \in (IF metrics_missing(supplied) THEN SimInputs ELSE {<<60>>}) :
          LET layer == session.current_layer
              k == layer_config_stage(layer)
              result == evaluate_layer_output(p, layer, supplied, sim, criteria[k])
          IN /\ industry_applies(evaluation_industry(p)) => extends_done < MaxExtends
             /\ project' = p
             /\ criteria' = [criteria EXCEPT ![k] = result.criteria]
             /\ last' = [op |-> "evaluate", layer |-> layer, metrics |-> supplied,
                         sim |-> sim, result |-> result]
             /\ UNCHANGED <<session, created>>

InitEvalStage ==
    /\ project = NoProject
    /\ session \in [id : {"s1"}, current_layer : Stages]
    /\ criteria = InitCriteria
    /\ last = Idle
    /\ created = <<>>

NextEvalStage == EvaluateStage

SpecEvalStage == InitEvalStage /\ [][NextEvalStage]_vars

(***************************************************************************)
(* Score: calculate_project_complexity(project), and SelectNetwork: the    *)
(* network selection of determine_layer_sequence                           *)
(***************************************************************************)

\* values on both sides of every threshold, and a domain of every level
CodeSizeInputs == {999, 1000, 4999, 5000}
DomainInputs == {"portfolio", "e_commerce", "general", "healthcare_app"}
FeatureCountInputs == {2, 3, 7, 8}
IntegrationCountInputs == {0, 1, 2, 3}

FactorFields == {"domain", "estimated_code_size", "features", "integrations"}

Factors(present, illtyped, domain, size, nfeat, nint) ==
    [present |-> present, illtyped |-> illtyped,
     domain |-> domain, size |-> size, nfeat |-> nfeat, nint |-> nint]

\* every combination of factor values; the high profile with every subset of
\* its fields; and values of the wrong kind
ScoreFactorInputs ==
    {Factors(FactorFields, {}, d, sz, nf, ni) :
        d \in DomainInputs, sz \in CodeSizeInputs,
        nf \in FeatureCountInputs, ni \in IntegrationCountInputs}
    \cup {Factors(pr, {}, "healthcare_app", 22000, 9, 4) : pr \in SUBSET FactorFields}
    \cup {Factors(FactorFields, {x}, "healthcare_app", 22000, 8, 2) :
            x \in {<<"estimated_code_size", "string">>,
                   <<"estimated_code_size", "null">>,
                   <<"features", "number">>, <<"features", "string">>,
                   <<"integrations", "null">>, <<"integrations", "string">>,
                   <<"domain", "number">>}}

ScoreProjects ==
    {NoProject, NoMetadata, BadMetadata}
    \cup {MetaOf("", "", f) : f \in ScoreFactorInputs}
    \cup PlanProjects

Score ==
    /\ last' = [op |-> "score", result |-> calculate_project_complexity(project)]
    /\ UNCHANGED <<project, session, criteria, created>>

\* lines 456-483 of determine_layer_sequence; when line 461 raises no network
\* is selected and the sequence returned is that of standard
SelectNetwork ==
    /\ last' = [op |-> "network",
                result |-> IF parses(project) THEN network_of(project) ELSE "standard"]
    /\ UNCHANGED <<project, session, criteria, created>>

InitScore ==
    /\ project \in ScoreProjects
    /\ session = NewSession
    /\ criteria = InitCriteria
    /\ last = Idle
    /\ created = <<>>

NextScore == Score \/ SelectNetwork

SpecScore == InitScore /\ [][NextScore]_vars

(***************************************************************************)
(* CrossLayerMemory.  Scores are fractions <<numerator, denominator>> of   *)
(* thousandths; priority weights and layer relevances are tenths.          *)
(***************************************************************************)

\* MEMORY_TYPES with the priority of a constraint lowered to high
MEMORY_TYPES_constraint_high ==
    [decision |-> "high", constraint |-> "high", insight |-> "medium",
     error |-> "high", preference |-> "medium", context |-> "low",
     artifact |-> "medium"]

\* MEMORY_TYPES[t]['priority']
MEMORY_TYPES ==
    [decision |-> "high", constraint |-> "critical", insight |-> "medium",
     error |-> "high", preference |-> "medium", context |-> "low",
     artifact |-> "medium"]

\* PRIORITY_WEIGHTS, tenths
PRIORITY_WEIGHTS == [critical |-> 10, high |-> 8, medium |-> 5, low |-> 3]

\* LAYER_RELEVANCE[source][current], tenths; rows and columns are stages 1..5
LAYER_RELEVANCE ==
    << <<10, 9, 7, 5, 8>>,
       <<4, 10, 9, 7, 7>>,
       <<2, 5, 10, 9, 8>>,
       <<3, 6, 8, 10, 9>>,
       <<2, 3, 4, 5, 10>> >>

\* LAYER_RELEVANCE.get(source_layer, {}).get(current_layer, 0.0)
layer_relevance_get(source_layer, current_layer) ==
    IF source_layer \in 1..5 /\ current_layer \in 1..5
    THEN LAYER_RELEVANCE[source_layer][current_layer]
    ELSE 0

\* a metadata map: its string values, and the keys of its other values
MemoryMetadata(strings, others) == [strings |-> strings, others |-> others]

Memory(id, session_id, created_at, source_layer, type, priority, content, metadata, usage_count, last_accessed) ==
    [id |-> id, session_id |-> session_id, created_at |-> created_at,
     source_layer |-> source_layer, type |-> type, priority |-> priority,
     content |-> content, metadata |-> metadata, usage_count |-> usage_count,
     last_accessed |-> last_accessed]

\* create_memory; number is the draw of random.randint(1000, 9999).  The
\* record is returned and stored nowhere.
create_memory(session_id, layer, memory_type, content, metadata, number) ==
    LET type == IF memory_type \in DOMAIN MEMORY_TYPES THEN memory_type ELSE "context"
    IN Memory(<<session_id, layer, number>>, session_id, "utcnow", layer, type,
              MEMORY_TYPES[type], content, metadata, 0, "None")

\* lines 802-863: the list get_relevant_memories builds on every call
SampleMemories(session_id) ==
    << Memory(<<session_id, 1, 1001>>, session_id, "2025-04-01T10:00:00Z", 1,
              "constraint", "critical",
              "User requires a responsive design that works on mobile devices",
              MemoryMetadata(<<"ui_requirement">>, {}), 2, "2025-04-01T11:30:00Z"),
       Memory(<<session_id, 1, 1002>>, session_id, "2025-04-01T10:05:00Z", 1,
              "decision", "high",
              "Will use Flask for backend, Bootstrap for frontend",
              MemoryMetadata(<<"architecture">>, {}), 3, "2025-04-01T14:20:00Z"),
       Memory(<<session_id, 2, 2001>>, session_id, "2025-04-01T11:15:00Z", 2,
              "artifact", "medium",
              "Database schema defines Users, Projects, and Comments tables",
              MemoryMetadata(<<"database", "schema">>, {}), 1, "2025-04-01T12:45:00Z"),
       Memory(<<session_id, 3, 3001>>, session_id, "2025-04-01T13:30:00Z", 3,
              "error", "high",
              "Initial implementation had SQL injection vulnerability in search function",
              MemoryMetadata(<<"security">>, {"fixed"}), 2, "2025-04-01T15:10:00Z"),
       Memory(<<session_id, 4, 4001>>, session_id, "2025-04-01T16:20:00Z", 4,
              "insight", "medium",
              "Adding database index on project name improved search performance by 40%",
              MemoryMetadata(<<"performance", "database">>, {}), 1,
              "2025-04-01T17:00:00Z") >>

UpperCase == "ABCDEFGHIJKLMNOPQRSTUVWXYZ"
LowerCase == "abcdefghijklmnopqrstuvwxyz"

lower_char(c) ==
    IF \E i \in 1..Len(UpperCase) : SubSeq(UpperCase, i, i) = c
    THEN LET i == CHOOSE j \in 1..Len(UpperCase) : SubSeq(UpperCase, j, j) = c
         IN SubSeq(LowerCase, i, i)
    ELSE c

\* str.lower()
RECURSIVE lower(_)
lower(str) ==
    IF Len(str) = 0 THEN ""
    ELSE lower_char(SubSeq(str, 1, 1)) \o lower(SubSeq(str, 2, Len(str)))

\* the keyword lists a query is made with; the empty list stands for None too
KeywordInputs ==
    {<<>>, <<"Database">>, <<"SECURITY", "zzz">>, <<"">>}

\* every text of the sample records, and every keyword
MemoryTexts ==
    {SampleMemories("s1")[i].content : i \in 1..5}
    \cup UNION {Range(SampleMemories("s1")[i].metadata.strings) : i \in 1..5}

KeywordTexts == UNION {Range(k) : k \in KeywordInputs}

\* `kw.lower() in text.lower()` for every keyword and text
keyword_in_text ==
    [kw \in KeywordTexts |-> [text \in MemoryTexts |-> contains(lower(text), lower(kw))]]

min_of(a, b) == IF a < b THEN a ELSE b

\* _calculate_memory_relevance, in thousandths over the number of keywords
calculate_memory_relevance(memory, current_layer, keywords) ==
    LET base_score == layer_relevance_get(memory.source_layer, current_layer)
        priority_weight == IF memory.priority \in DOMAIN PRIORITY_WEIGHTS
                           THEN PRIORITY_WEIGHTS[memory.priority] ELSE 5
        n == IF keywords = <<>> THEN 1 ELSE Len(keywords)
        content_matches ==
            Cardinality({k \in 1..Len(keywords) :
                            keyword_in_text[keywords[k]][memory.content]})
        metadata_matches ==
            Cardinality({x \in (1..Len(keywords)) \X (1..Len(memory.metadata.strings)) :
                            keyword_in_text[keywords[x[1]]][memory.metadata.strings[x[2]]]})
        \* 0.2 * keyword_score, times 1000 n
        keyword_part == IF keywords = <<>> THEN 100
                        ELSE min_of(200 * n, 100 * (content_matches + metadata_matches))
        \* 0.1 * usage_factor, times 1000
        usage_part == min_of(100, 20 * memory.usage_count)
    IN <<n * (40 * base_score + 30 * priority_weight + usage_part) + keyword_part,
         1000 * n>>

\* a >= b for fractions with positive denominators
score_geq(a, b) == a[1] * b[2] >= b[1] * a[2]

\* lines 869-874 with every record kept and scored by the layer term alone
scored_memories_layer_term_unfiltered(memories, current_layer, keywords) ==
    [i \in 1..Len(memories) |->
        <<memories[i],
          <<40 * layer_relevance_get(memories[i].source_layer, current_layer), 1000>> >>]

\* lines 869-874: the records with a positive score, each with its score
scored_memories(memories, current_layer, keywords) ==
    LET scored == [i \in 1..Len(memories) |->
                      <<memories[i],
                        calculate_memory_relevance(memories[i], current_layer, keywords)>>]
    IN SelectSeq(scored, LAMBDA x : x[2][1] > 0)

\* where a pair goes in a sorted list: behind every pair that does not have
\* to come after it
RECURSIVE insert_by_score(_, _, _)
insert_by_score(sorted, x, descending) ==
    IF sorted = <<>> THEN <<x>>
    ELSE IF (IF descending THEN score_geq(sorted[1][2], x[2])
                           ELSE score_geq(x[2], sorted[1][2]))
         THEN <<sorted[1]>> \o insert_by_score(Tail(sorted), x, descending)
         ELSE <<x>> \o sorted

\* a stable sort by score
RECURSIVE stable_sort(_, _)
stable_sort(pairs, descending) ==
    IF pairs = <<>> THEN <<>>
    ELSE insert_by_score(stable_sort(SubSeq(pairs, 1, Len(pairs) - 1), descending),
                         pairs[Len(pairs)], descending)

\* line 877 without reverse=True
sort_by_score_ascending(pairs) == stable_sort(pairs, FALSE)

\* line 877: scored_memories.sort(key=score, reverse=True)
sort_by_score(pairs) == stable_sort(pairs, TRUE)

\* scored_memories[:limit] for a limit that is not negative
take(list, limit) == SubSeq(list, 1, min_of(limit, Len(list)))

\* lines 881-883 with the usage count raised by two
accessed_counted_twice(memory) ==
    [memory EXCEPT !.usage_count = @ + 2, !.last_accessed = "utcnow"]

\* lines 881-883
accessed(memory) ==
    [memory EXCEPT !.usage_count = @ + 1, !.last_accessed = "utcnow"]

\* get_relevant_memories: the returned records, and the score each was
\* ranked with
get_relevant_memories(session_id, current_layer, keywords, memory_types, limit) ==
    LET memories == IF memory_types # <<>>
                    THEN SelectSeq(SampleMemories(session_id),
                                   LAMBDA m : m.type \in Range(memory_types))
                    ELSE SampleMemories(session_id)
        top == take(sort_by_score(scored_memories(memories, current_layer, keywords)),
                    limit)
    IN [memories |-> [i \in 1..Len(top) |-> accessed(top[i][1])],
        scores |-> [i \in 1..Len(top) |-> top[i][2]]]

\* the type filters a query is made with; the empty list stands for None too
TypeFilterInputs ==
    {<<>>, <<"constraint", "decision", "error">>, <<"artifact">>}

LimitInputs == {0, 1, 2, 10}

\* the number of records create_memory hands out in a run
MaxCreated == 2

CreateMemory ==
    \E layer \in {1}, memory_type \in {"constraint", "note"},
       number \in {1001, 5000} :
        LET memory == create_memory(session.id, layer, memory_type,
                                    "Use PostgreSQL", MemoryMetadata(<<>>, {}), number)
        IN /\ Len(created) < MaxCreated
           /\ created' = Append(created, memory)
           /\ last' = [op |-> "create", result |-> memory]
           /\ UNCHANGED <<project, session, criteria>>

Query ==
    \E keywords \in KeywordInputs, memory_types \in TypeFilterInputs,
       limit \in LimitInputs :
        LET found == get_relevant_memories(session.id, session.current_layer,
                                           keywords, memory_types, limit)
        IN /\ last' = [op |-> "query", keywords |-> keywords,
                       memory_types |-> memory_types, limit |-> limit,
                       result |-> found.memories, scores |-> found.scores]
           /\ UNCHANGED <<project, session, criteria, created>>

\* queries from every stage
InitQuery ==
    /\ project = NoProject
    /\ session \in [id : {"s1"}, current_layer : Stages]
    /\ criteria = InitCriteria
    /\ last = Idle
    /\ created = <<>>

NextQuery == Query

SpecQuery == InitQuery /\ [][NextQuery]_vars

\* records created and queried from a stage inside and a stage outside the
\* relevance matrix
InitMemory ==
    /\ project = NoProject
    /\ session \in [id : {"s1"}, current_layer : {3, 7}]
    /\ criteria = InitCriteria
    /\ last = Idle
    /\ created = <<>>

NextMemory == CreateMemory \/ Query

SpecMemory == InitMemory /\ [][NextMemory]_vars

\* the types create_memory is called with: every key of MEMORY_TYPES, a
\* string that is not a key, and the empty string
MemoryTypeInputs ==
    {"decision", "constraint", "insight", "error", "preference", "context",
     "artifact", "note"}

\* the smallest and the largest draw of random.randint(1000, 9999)
NumberInputs == {1000, 9999}

\* create_memory with every type, from two source stages
CreateMemoryOfType ==
    \E layer \in {2, 5}, memory_type \in MemoryTypeInputs, number \in NumberInputs :
        LET memory == create_memory(session.id, layer, memory_type,
                                    "Use PostgreSQL", MemoryMetadata(<<>>, {}), number)
        IN /\ Len(created) < MaxCreated
           /\ created' = Append(created, memory)
           /\ last' = [op |-> "create", memory_type |-> memory_type,
                       result |-> memory]
           /\ UNCHANGED <<project, session, criteria>>

InitCreate ==
    /\ project = NoProject
    /\ session = [id |-> "s1", current_layer |-> 2]
    /\ criteria = InitCriteria
    /\ last = Idle
    /\ created = <<>>

NextCreate == CreateMemoryOfType

SpecCreate == InitCreate /\ [][NextCreate]_vars

(***************************************************************************)
(* Parameters: get_layer_execution_parameters(project, layer).             *)
(* Temperatures are hundredths, token factors and layer weights tenths.    *)
(***************************************************************************)

\* AdaptiveLayerSequencer.INDUSTRY_ADJUSTMENTS[i]['layer_weights'], tenths;
\* entry k is the weight of stage k
layer_weights ==
    [healthcare |-> <<12, 15, 10, 18, 13>>,
     finance    |-> <<11, 12, 10, 20, 15>>,
     education  |-> <<15, 10, 10, 8, 17>>,
     startup    |-> <<9, 8, 12, 7, 7>>,
     government |-> <<18, 15, 10, 13, 19>>,
     research   |-> <<13, 11, 10, 10, 15>>]

\* lines 579-610: the parameters before the adjustments
base_parameters(layer) ==
    CASE layer = 1 -> [max_tokens |-> 3000, temperature |-> 80, depth |-> "standard",
                       focus_areas |-> <<"requirements", "constraints", "user_stories">>]
      [] layer = 2 -> [max_tokens |-> 4000, temperature |-> 60, depth |-> "standard",
                       focus_areas |-> <<"architecture", "technical_planning", "data_model">>]
      [] layer = 3 -> [max_tokens |-> 6000, temperature |-> 40, depth |-> "standard",
                       focus_areas |-> <<"code_generation", "implementation", "apis">>]
      [] layer = 4 -> [max_tokens |-> 5000, temperature |-> 30, depth |-> "standard",
                       focus_areas |-> <<"performance", "security", "debugging">>]
      [] layer = 5 -> [max_tokens |-> 4000, temperature |-> 50, depth |-> "standard",
                       focus_areas |-> <<"documentation", "user_guide", "deployment">>]
      [] OTHER -> [max_tokens |-> 4000, temperature |-> 70, depth |-> "standard",
                   focus_areas |-> <<>>]

\* complexity_adjustments with the temperature of a high complexity project
\* left alone
complexity_adjustments_high_temperature_unchanged ==
    [low    |-> [max_tokens_factor |-> 8, temperature_adjustment |-> 10,
                 depth |-> "basic"],
     medium |-> [max_tokens_factor |-> 10, temperature_adjustment |-> 0,
                 depth |-> "standard"],
     high   |-> [max_tokens_factor |-> 15, temperature_adjustment |-> 0,
                 depth |-> "comprehensive"]]

\* lines 613-629
complexity_adjustments ==
    [low    |-> [max_tokens_factor |-> 8, temperature_adjustment |-> 10,
                 depth |-> "basic"],
     medium |-> [max_tokens_factor |-> 10, temperature_adjustment |-> 0,
                 depth |-> "standard"],
     high   |-> [max_tokens_factor |-> 15, temperature_adjustment |-> -10,
                 depth |-> "comprehensive"]]

max_of(a, b) == IF a > b THEN a ELSE b

\* lines 645-650: the focus areas an industry adds at a stage
industry_focus_areas(industry, layer) ==
    IF industry = "healthcare" /\ layer = 4 THEN <<"hipaa_compliance", "phi_security">>
    ELSE IF industry = "finance" /\ layer = 4
         THEN <<"financial_regulations", "transaction_security">>
    ELSE IF industry = "education" /\ layer = 5
         THEN <<"accessibility", "learning_outcomes">>
    ELSE <<>>

\* get_layer_execution_parameters; int(x * factor) is the quotient by ten of
\* x times the factor in tenths
get_layer_execution_parameters(p, layer) ==
    LET complexity == calculate_project_complexity(p)
        industry == complexity.industry
        base == base_parameters(layer)
        adj == complexity_adjustments[complexity.overall]
        adjusted_tokens == (base.max_tokens * adj.max_tokens_factor) \div 10
        temperature == max_of(10, min_of(100, base.temperature + adj.temperature_adjustment))
        layer_weight == IF industry \in DOMAIN layer_weights /\ layer \in 1..5
                        THEN layer_weights[industry][layer] ELSE 10
    IN IF industry \in DOMAIN layer_weights
       THEN [max_tokens |-> (adjusted_tokens * layer_weight) \div 10,
             temperature |-> temperature, depth |-> adj.depth,
             focus_areas |-> base.focus_areas \o industry_focus_areas(industry, layer)]
       ELSE [max_tokens |-> adjusted_tokens, temperature |-> temperature,
             depth |-> adj.depth, focus_areas |-> base.focus_areas]

\* projects of every industry of the table, an industry that is not in it and
\* no industry, each with factor fields of every complexity level
ParametersProjects ==
    {NoProject, NoMetadata, BadMetadata}
    \cup {MetaOf(i, "", f) : i \in IndustryInputs \cup {"finance", ""},
                             f \in FactorInputs}

Parameters ==
    \E p \in ParametersProjects, layer \in Stages :
        /\ project' = p
        /\ last' = [op |-> "parameters", layer |-> layer,
                    result |-> get_layer_execution_parameters(p, layer)]
        /\ UNCHANGED <<session, criteria, created>>

InitParameters ==
    /\ project = NoProject
    /\ session = NewSession
    /\ criteria = InitCriteria
    /\ last = Idle
    /\ created = <<>>

NextParameters == Parameters

SpecParameters == InitParameters /\ [][NextParameters]_vars

(***************************************************************************)
(* HACFSession (models.py): the stored layer sequence and next_layer       *)
(***************************************************************************)

\* the layer_sequence column: NULL, or the JSON text of a list of stage IDs
NullSequence == [kind |-> "null"]
JsonSequence(list) == [kind |-> "json", list |-> list]

\* layer_sequence_list: the default sequence when the column is empty
layer_sequence_list(s) ==
    IF s.layer_sequence.kind = "json" /\ s.layer_sequence.list # <<>>
    THEN s.layer_sequence.list
    ELSE [i \in 1..12 |-> i - 1]

\* the result of next_layer when there is no next stage
None == -1

\* sequence.index(x): the position of the first occurrence
index(sequence, x) ==
    CHOOSE i \in 1..Len(sequence) :
        sequence[i] = x /\ \A j \in 1..(i - 1) : sequence[j] # x

\* HACFSession.next_layer
next_layer(s) ==
    LET sequence == layer_sequence_list(s)
    IN IF \E i \in 1..Len(sequence) : sequence[i] = s.current_layer
       THEN LET idx == index(sequence, s.current_layer)
            IN IF idx < Len(sequence) THEN sequence[idx + 1] ELSE None
       ELSE None

\* the steps a walk is followed for
MaxSteps == 12

\* one project for every network, of high complexity where repeats are
\* planned, and a project without metadata
WalkProjects ==
    {NoMetadata}
    \cup {MetaOf(i, "", f) :
            i \in {"education", "startup", "research", "healthcare"},
            f \in {x \in FactorInputs : x.nfeat = 9}}

\* session.current_layer = session.next_layer, while there is a next stage
AdvanceLayer ==
    /\ last.steps < MaxSteps
    /\ next_layer(session) # None
    /\ session' = [session EXCEPT !.current_layer = next_layer(session)]
    /\ last' = [op |-> "advance", steps |-> last.steps + 1]
    /\ UNCHANGED <<project, criteria, created>>

\* a session that stored the plan of PlanInitialSequence and is at its first
\* stage, or has no stored sequence and is at stage 0
InitWalk ==
    /\ project \in WalkProjects
    /\ \E rolls \in RepeatRolls, stored \in BOOLEAN :
          LET plan == determine_layer_sequence(project, "none", NoFeedback,
                                               Rnd(FALSE, FALSE, FALSE, 1, rolls))
          IN session = IF stored
                       THEN [id |-> "s1", current_layer |-> plan[1],
                             layer_sequence |-> JsonSequence(plan)]
                       ELSE [id |-> "s1", current_layer |-> 0,
                             layer_sequence |-> NullSequence]
    /\ criteria = InitCriteria
    /\ last = [op |-> "start", steps |-> 0]
    /\ created = <<>>

NextWalk == AdvanceLayer

SpecWalk == InitWalk /\ [][NextWalk]_vars

(***************************************************************************)
(* Properties of PlanInitialSequence                                       *)
(***************************************************************************)

PlanReturned == last.op = "plan"

\* the network a plan was generated on; the except branch selects none and
\* returns the standard sequence
plan_network == IF parses(project) THEN network_of(project) ELSE "standard"

plan_complexity == calculate_project_complexity(project).overall

HasRepeat(path) == \E i \in 1..(Len(path) - 1) : path[i] = path[i + 1]

\* C1: every plan returned by PlanInitialSequence has at most 10 entries,
\* for every network, complexity level and outcome of the repeat rolls.
C1_PlanLengthAtMostTen ==
    PlanReturned => Len(last.result) <= 10

\* C8: every plan starts with stage 1, holds only stage IDs 0..11, and each
\* consecutive pair (a, b) is the first edge of a, the linear fallback from a
\* stage without edges below 5, or a repeat of a where a repeat is permitted.
C8_PlanFollowsFirstEdges ==
    PlanReturned =>
        LET path == last.result
        IN /\ path[1] = 1
           /\ \A i \in 1..Len(path) : path[i] \in Stages
           /\ \A i \in 1..(Len(path) - 1) :
                LET a == path[i]
                    b == path[i + 1]
                    adj == transition_get(plan_network, a)
                IN \/ adj # <<>> /\ b = adj[1]
                   \/ adj = <<>> /\ a < 5 /\ b = a + 1
                   \/ /\ b = a
                      /\ plan_complexity = "high"
                      /\ plan_network \in {"agile", "iterative_development"}
                      /\ a \in {3, 4}

\* a plan on the agile network that loops back (4 to 3) and repeats a stage
C8_Witness ==
    /\ PlanReturned
    /\ plan_network = "agile"
    /\ HasRepeat(last.result)
    /\ \E i \in 1..(Len(last.result) - 1) :
          last.result[i] = 4 /\ last.result[i + 1] = 3

\* C9: two equal consecutive stages occur in a plan only when complexity is
\* high, the network is agile or iterative_development and the stage is 3 or 4.
C9_RepeatOnlyWhenConditionHeld ==
    PlanReturned =>
        \A i \in 1..(Len(last.result) - 1) :
            last.result[i] = last.result[i + 1] =>
                /\ plan_complexity = "high"
                /\ plan_network \in {"agile", "iterative_development"}
                /\ last.result[i] \in {3, 4}

\* a plan on iterative_development that repeats both stage 3 and stage 4
C9_Witness ==
    /\ PlanReturned
    /\ plan_network = "iterative_development"
    /\ last.result = <<1, 2, 3, 3, 4, 4, 5>>

\* a plan without the repeats: the entries that differ from the entry before
without_repeats(path) ==
    LET keep == {i \in 1..Len(path) : i = 1 \/ path[i] # path[i - 1]}
    IN [k \in 1..Cardinality(keep) |->
          path[CHOOSE i \in keep : Cardinality({j \in keep : j < i}) = k - 1]]

\* C29: PlanInitialSequence returns for every network, with a plan no longer
\* than the step cap and one repeat; the plan ends with stage 5 exactly when
\* the network is standard, security_focused or iterative_development, and is
\* then 1, 2, 3, 4, 5 with permitted repeats only; on agile the walk cycles
\* 3, 4, 3, 4 and on research 1, 0, 1, 0: the plan holds no stage 5 and ends
\* at the step cap.
C29_PlanEndsAtFiveOrAtCap ==
    PlanReturned =>
        LET path == last.result
            n == Len(path)
            walk == without_repeats(path)
        IN /\ n >= 1 /\ n <= MaxPathLen + 1
           /\ (path[n] = 5) <=>
                 (plan_network \in {"standard", "security_focused",
                                    "iterative_development"})
           /\ path[n] = 5 =>
                 /\ walk = <<1, 2, 3, 4, 5>>
                 /\ n > 5 => /\ plan_complexity = "high"
                             /\ plan_network = "iterative_development"
           /\ plan_network = "agile" =>
                 /\ 5 \notin Range(path)
                 /\ n >= MaxPathLen
                 /\ \A i \in 1..Len(walk) :
                       walk[i] = (IF i <= 2 THEN i ELSE IF i % 2 = 1 THEN 3 ELSE 4)
           /\ plan_network = "research" =>
                 /\ 5 \notin Range(path)
                 /\ n = MaxPathLen
                 /\ \A i \in 1..n : path[i] = (IF i % 2 = 1 THEN 1 ELSE 0)

\* a plan on research that stopped at the cap in the cycle 1, 0
C29_Witness ==
    /\ PlanReturned
    /\ plan_network = "research"
    /\ Len(last.result) = MaxPathLen
    /\ last.result[MaxPathLen - 1] = 1
    /\ last.result[MaxPathLen] = 0

(***************************************************************************)
(* Properties of SelectNextStage                                           *)
(***************************************************************************)

SelectReturned == last.op = "select"

\* possible = adjacency[k] of the project's network
possible_at(k) == transition_get(plan_network, k)

\* C4: the returned stage is drawn from the adjacency list of the session's
\* current stage (or is that stage, on a redo), and is the fallback 5 when
\* that list is empty.
C4_NextFromCurrentStage ==
    (SelectReturned /\ parses(project) /\ last.feedback.kind # "empty") =>
        LET k == session.current_layer
        IN /\ Len(last.result) = 1
           /\ IF possible_at(k) = <<>> THEN last.result[1] = 5
              ELSE last.result[1] \in Range(possible_at(k)) \cup {k}

\* standardNext and the alternatives of the session's current stage
standard_next_at(k) == possible_at(k)[1]

alternatives_at(k) == Range(possible_at(k)) \ {standard_next_at(k)}

\* C5: with satisfaction > 0.8 the result is the first entry of the current
\* stage's adjacency list, whatever the rolls.
C5_HighSatisfactionTakesStandardNext ==
    (/\ SelectReturned
     /\ parses(project)
     /\ last.feedback.kind = "sat"
     /\ last.feedback.satisfaction > 80
     /\ possible_at(session.current_layer) # <<>>) =>
        last.result = <<standard_next_at(session.current_layer)>>

\* C6: with satisfaction < 0.4 on a stage that has alternatives, the result is
\* standardNext, one of the alternatives, or the current stage.
C6_LowSatisfactionSupport ==
    (/\ SelectReturned
     /\ parses(project)
     /\ last.feedback.kind = "sat"
     /\ last.feedback.satisfaction < 40
     /\ possible_at(session.current_layer) # <<>>
     /\ alternatives_at(session.current_layer) # {}) =>
        /\ Len(last.result) = 1
        /\ last.result[1] \in Range(possible_at(session.current_layer))
                              \cup {session.current_layer}

\* C7: called with a session ID and a feedback map, the function returns
\* exactly one stage ID, for every project and every feedback map.
C7_ReturnsOneStage ==
    SelectReturned =>
        Len(last.result) = 1 /\ last.result[1] \in Stages

\* C24: with satisfaction < 0.4, when the 0.7 roll for an alternative fails
\* and the 0.3 roll for a redo fails too, the result is standardNext; no
\* further roll turns it into an alternative.  Stated for a session at the
\* stage the feedback branch takes as current.
C24_LowSatisfactionFallsToStandardNext ==
    (/\ SelectReturned
     /\ parses(project)
     /\ session.current_layer = feedback_current_layer
     /\ last.feedback.kind = "sat"
     /\ last.feedback.satisfaction < 40
     /\ possible_at(session.current_layer) # <<>>
     /\ ~last.rnd.alt_low
     /\ ~last.rnd.redo) =>
        last.result = <<standard_next_at(session.current_layer)>>

\* is the satisfaction of the feedback moderate: 0.4 <= s <= 0.8, or no
\* satisfaction field
moderate(feedback) ==
    \/ feedback.kind = "sat" /\ feedback.satisfaction >= 40 /\ feedback.satisfaction <= 80
    \/ feedback.kind \in {"nosat", "empty"}

\* C25: with moderate satisfaction the result is standardNext or one of the
\* alternatives of the current stage, never a forced redo of the current
\* stage, and standardNext when the stage has no alternatives.
C25_ModerateSatisfactionSupport ==
    (/\ SelectReturned
     /\ parses(project)
     /\ moderate(last.feedback)
     /\ possible_at(session.current_layer) # <<>>) =>
        LET k == session.current_layer
        IN /\ Len(last.result) = 1
           /\ last.result[1] \in Range(possible_at(k))
           /\ alternatives_at(k) = {} => last.result[1] = standard_next_at(k)

(***************************************************************************)
(* Properties of Evaluate                                                  *)
(***************************************************************************)

EvaluateReturned == last.op = "evaluate"

\* C2: after any sequence of Evaluate calls every stage's criteria list in
\* the catalog equals its initial five-entry value.
C2_CriteriaTableUnchanged ==
    \A k \in Stages : criteria[k] = LAYER_CRITERIA_criteria[k + 1]

\* C3: for supplied metrics the dimension scores and the overall score of a
\* call are those of the same call made when no call has happened before.
C3_EvaluateStateless ==
    (EvaluateReturned /\ ~metrics_missing(last.metrics)) =>
        LET fresh == evaluate_layer_output(project, last.layer, last.metrics,
                         last.sim, InitCriteria[layer_config_stage(last.layer)])
        IN /\ last.result.dimension_scores = fresh.dimension_scores
           /\ last.result.overall_score = fresh.overall_score

\* the sum of the six weights in use is 1: with the fractions n[d] / m[d]
\* over the common denominator W, the numerators add up to W
weights_sum_to_one(weights) ==
    LET W == lcm_of(weights, Range(Dimensions))
        scaled == [d \in Range(Dimensions) |-> weights[d][1] * (W \div weights[d][2])]
    IN sum_of(scaled, Range(Dimensions)) = W

\* C10: for every stage and industry the weights multiplied with the six
\* dimension scores sum to 1.
C10_WeightsSumToOne ==
    EvaluateReturned => weights_sum_to_one(last.result.weights)

\* the overall score n / m lies in [0, 1]
score_in_unit_interval(score) == 0 <= score[1] /\ score[1] <= score[2]

\* every supplied score lies in [0, 1]
metrics_in_unit_interval(supplied) ==
    \A c \in DOMAIN supplied.scores :
        0 <= supplied.scores[c] /\ supplied.scores[c] <= 100

\* C11: for every stage, every industry and every supplied metrics map with
\* values in [0, 1], the overall score of Evaluate lies in [0, 1].
C11_OverallScoreInUnitInterval ==
    (/\ EvaluateReturned
     /\ ~metrics_missing(last.metrics)
     /\ metrics_in_unit_interval(last.metrics)) =>
        score_in_unit_interval(last.result.overall_score)

\* stage 0 with a registered industry, where the weights in use sum to more
\* than 1, evaluated on metrics that are all 1
C11_Witness ==
    /\ EvaluateReturned
    /\ last.layer = 0
    /\ last.metrics = UniformMetrics(100)
    /\ ~weights_sum_to_one(last.result.weights)
    /\ last.result.dimension_scores["completeness"] = <<600, 6>>

\* the dimensions whose list holds the criterion named c
dimensions_of(crit, c) ==
    {d \in Range(Dimensions) :
        \E i \in 1..Len(crit) : crit[i] = c /\ in_dimension(crit, i, d)}

\* C12: every criterion of the evaluated list is in the list of exactly one
\* of the six dimensions, for every stage and industry extension.
C12_CriterionInOneDimension ==
    EvaluateReturned =>
        \A c \in Range(last.result.criteria) :
            Cardinality(dimensions_of(last.result.criteria, c)) = 1

\* does at most n of the scores lie strictly below the score x
among_lowest(scores, x, n) ==
    Cardinality({k \in DOMAIN scores : score_less(scores[k], x)}) <= n

\* the returned recommendations that come from a criterion, and those that
\* come from a dimension
from_criteria(result) ==
    {i \in 1..Len(result.recommendations) :
        \E c \in DOMAIN result.metric_scores :
            result.recommendations[i] = recommendation_table[c]}

from_dimensions(result) ==
    {i \in 1..Len(result.recommendations) :
        \E d \in Range(Dimensions) :
            result.recommendations[i] = dimension_recommendation[d]}

metric_fractions(result) ==
    [c \in DOMAIN result.metric_scores |-> <<result.metric_scores[c], 1>>]

\* C22: the recommendation list of Evaluate has no duplicates and at most
\* five entries: at most three from the three lowest criteria, each below
\* 0.7, and at most two from the two lowest dimensions, each below 0.75; it is
\* empty when every criterion score is at least 0.7 and every dimension score
\* at least 0.75.
C22_RecommendationsBounded ==
    EvaluateReturned =>
        LET result == last.result
            r == result.recommendations
            metrics == metric_fractions(result)
            dims == result.dimension_scores
        IN /\ \A i, j \in 1..Len(r) : i # j => r[i] # r[j]
           /\ Len(r) <= 5
           /\ Cardinality(from_criteria(result)) <= 3
           /\ Cardinality(from_dimensions(result)) <= 2
           /\ \A i \in 1..Len(r) :
                \/ \E c \in DOMAIN metrics :
                      /\ r[i] = recommendation_table[c]
                      /\ score_less(metrics[c], <<70, 1>>)
                      /\ among_lowest(metrics, metrics[c], 2)
                \/ \E d \in Range(Dimensions) :
                      /\ r[i] = dimension_recommendation[d]
                      /\ score_less(dims[d], <<75, 1>>)
                      /\ among_lowest(dims, dims[d], 1)
           /\ ((\A c \in DOMAIN metrics : ~score_less(metrics[c], <<70, 1>>))
               /\ (\A d \in Range(Dimensions) : ~score_less(dims[d], <<75, 1>>)))
              => r = <<>>

\* an evaluation whose criteria gave the same recommendation twice, and that
\* returned it once
C22_Witness ==
    /\ EvaluateReturned
    /\ LET result == last.result
           appended == appended_recommendations(
                           result.metric_scores,
                           IF metrics_missing(last.metrics)
                           THEN first_occurrences(result.criteria)
                           ELSE CriteriaOrder,
                           result.dimension_scores)
       IN /\ Len(appended) = 5
          /\ Len(result.recommendations) < 5
          /\ Len(result.recommendations) > 0

(***************************************************************************)
(* Properties of Score and SelectNetwork                                   *)
(***************************************************************************)

ScoreReturned == last.op = "score"

Levels == {"low", "medium", "high"}

\* C13: overall is medium for no project, for a project with no metadata,
\* and for metadata without domain, estimated_code_size, features and
\* integrations.
C13_MissingMetadataIsMedium ==
    (/\ ScoreReturned
     /\ \/ project.kind \in {"none", "absent"}
        \/ project.kind = "dict" /\ project.present \cap FactorFields = {}) =>
        last.result.overall = "medium"

\* the level of each factor, from the thresholds and the domain lists
code_size_level(v) == IF v < 1000 THEN "low" ELSE IF v < 5000 THEN "medium" ELSE "high"
feature_level(n) == IF n < 3 THEN "low" ELSE IF n < 8 THEN "medium" ELSE "high"
integration_level(n) == IF n < 1 THEN "low" ELSE IF n < 3 THEN "medium" ELSE "high"
domain_level(d) ==
    IF d \in {"landing_page", "portfolio", "simple_blog"} THEN "low"
    ELSE IF d \in {"financial_system", "healthcare_app", "ai_system",
                   "security_critical"} THEN "high"
    ELSE "medium"

rank(level) == CASE level = "low" -> 1 [] level = "medium" -> 2 [] level = "high" -> 3

\* a project whose four factor fields are present with values of the right kind
well_formed(p) ==
    p.kind = "dict" /\ FactorFields \subseteq p.present /\ p.illtyped = {}

\* the weighted score in hundredths: 0.25, 0.35, 0.2 and 0.2 of the levels
weighted_level_score(p) ==
    25 * rank(code_size_level(p.estimated_code_size)) + 35 * rank(domain_level(p.domain))
    + 20 * rank(feature_level(p.features)) + 20 * rank(integration_level(p.integrations))

\* the projects that differ from p in the value of one factor, whose level
\* is not lower than in p
raised(p) ==
    {[p EXCEPT !.estimated_code_size = v] :
        v \in {x \in CodeSizeInputs \cup {22000} :
                 rank(code_size_level(x)) >= rank(code_size_level(p.estimated_code_size))}}
    \cup {[p EXCEPT !.domain = v] :
        v \in {x \in DomainInputs : rank(domain_level(x)) >= rank(domain_level(p.domain))}}
    \cup {[p EXCEPT !.features = v] :
        v \in {x \in FeatureCountInputs \cup {9} :
                 rank(feature_level(x)) >= rank(feature_level(p.features))}}
    \cup {[p EXCEPT !.integrations = v] :
        v \in {x \in IntegrationCountInputs \cup {4} :
                 rank(integration_level(x)) >= rank(integration_level(p.integrations))}}

C15_DefaultProfileOnBadInput ==
    ScoreReturned =>
        /\ last.result.overall \in Levels
        /\ (\/ project.kind = "malformed"
            \/ project.kind = "dict" /\ illtyped_keys(project) # {}) =>
                (last.result.overall = "medium" /\ last.result.factors = <<>>)

NetworkReturned == last.op = "network"

\* C16: the project-type rule goes before the industry: research_poc gives
\* research, security_critical security_focused, mvp and prototype
\* iterative_development, agile_project agile; any other project type gives
\* the preferred network of the project's industry, standard when the
\* industry is not registered.
C16_ProjectTypeBeforeIndustry ==
    (NetworkReturned /\ project.kind = "dict") =>
        LET project_type == meta_get(project, "project_type", "web_application")
            industry == meta_get(project, "industry", "technology")
        IN last.result =
            CASE project_type = "research_poc" -> "research"
              [] project_type = "security_critical" -> "security_focused"
              [] project_type \in {"mvp", "prototype"} -> "iterative_development"
              [] project_type = "agile_project" -> "agile"
              [] OTHER ->
                   CASE industry \in {"healthcare", "finance"} -> "security_focused"
                     [] industry = "education" -> "agile"
                     [] industry = "startup" -> "iterative_development"
                     [] industry = "research" -> "research"
                     [] OTHER -> "standard"

\* C27: in the catalog, standard is strictly linear (stage k leads to k + 1
\* only, for k in 0..10) and stage 11 of standard is the only stage of any
\* network without an outgoing edge; in agile, research, security_focused and
\* iterative_development every stage 0..11 has a successor; every successor
\* listed is a stage ID in 0..11.
C27_CatalogShape ==
    /\ NetworkNames = {"standard", "agile", "research", "security_focused",
                       "iterative_development"}
    /\ \A k \in 0..10 : transition_get("standard", k) = <<k + 1>>
    /\ transition_get("standard", 11) = <<>>
    /\ \A net \in NetworkNames, k \in Stages :
          transition_get(net, k) = <<>> => (net = "standard" /\ k = 11)
    /\ \A net \in NetworkNames \ {"standard"}, k \in Stages :
          Len(transition_get(net, k)) >= 1
    /\ \A net \in NetworkNames, k \in Stages :
          Range(transition_get(net, k)) \subseteq Stages
    /\ NetworkReturned => last.result \in NetworkNames

\* the network selection returned standard, the network with the stage that
\* has no successor
C27_Witness ==
    /\ NetworkReturned
    /\ last.result = "standard"
    /\ transition_get(last.result, 11) = <<>>
    /\ transition_get(last.result, 10) = <<11>>

(***************************************************************************)
(* Properties of CrossLayerMemory                                          *)
(***************************************************************************)

QueryReturned == last.op = "query"

\* C17: the usageCount a Query call reports for a record is greater than the
\* usageCount every earlier Query call reported for it; here for two calls
\* that follow each other.
C17_UsageCountIncreases ==
    [][(last.op = "query" /\ last'.op = "query") =>
          \A i \in 1..Len(last.result), j \in 1..Len(last'.result) :
              last'.result[j].id = last.result[i].id =>
                  last'.result[j].usage_count > last.result[i].usage_count]_vars

\* is the created record c among the returned records
returned(c, result) ==
    \E i \in 1..Len(result) :
        /\ result[i].id = c.id
        /\ result[i].source_layer = c.source_layer
        /\ result[i].type = c.type
        /\ result[i].content = c.content

\* C18: a Query with no type filter, no keywords and a limit of at least the
\* number of the session's records returns every record CreateMemory made
\* for the session before.
C18_CreatedRecordRetrievable ==
    (/\ QueryReturned
     /\ last.memory_types = <<>>
     /\ last.keywords = <<>>
     /\ last.limit >= Len(SampleMemories(session.id)) + Len(created)) =>
        \A k \in 1..Len(created) : returned(created[k], last.result)

\* the relevance of a returned record with the usage count it had before
\* the call incremented it
relevance_before(memory) ==
    calculate_memory_relevance([memory EXCEPT !.usage_count = @ - 1],
                               session.current_layer, last.keywords)

C20_ReturnedScoresPositive ==
    QueryReturned =>
        \A i \in 1..Len(last.result) : last.scores[i][1] > 0

\* a query from a stage outside the relevance matrix with keywords that
\* match nothing in the first record: its layer and keyword terms are 0
C20_Witness ==
    /\ QueryReturned
    /\ session.current_layer = 7
    /\ last.keywords = <<"SECURITY", "zzz">>
    /\ Len(last.result) = 5
    /\ last.result[5].type = "insight"
    /\ last.scores[5] = <<2 * (30 * 5 + 20), 2000>>

\* C26: a Query call raises usageCount by exactly 1 and sets lastAccessed for
\* exactly the records it returns and changes no other field; the records
\* the type filter excludes or the limit cuts off are not among them and stay
\* as they are.
C26_QueryChangesReturnedRecordsOnly ==
    QueryReturned =>
        LET store == SampleMemories(session.id)
            held(i) == {k \in 1..Len(store) : store[k].id = last.result[i].id}
        IN /\ \A i \in 1..Len(last.result) :
                /\ Cardinality(held(i)) = 1
                /\ \A k \in held(i) :
                      /\ last.result[i].usage_count = store[k].usage_count + 1
                      /\ last.result[i].last_accessed = "utcnow"
                      /\ last.result[i].last_accessed # store[k].last_accessed
                      /\ [last.result[i] EXCEPT !.usage_count = store[k].usage_count,
                                                !.last_accessed = store[k].last_accessed]
                         = store[k]
           /\ \A i, j \in 1..Len(last.result) :
                i # j => last.result[i].id # last.result[j].id
           /\ \A k \in 1..Len(store) :
                (\/ (last.memory_types # <<>>
                     /\ store[k].type \notin Range(last.memory_types))
                 \/ last.limit = 0) =>
                    \A i \in 1..Len(last.result) : last.result[i].id # store[k].id

\* a query whose filter excludes two records and whose limit cuts one more
C26_Witness ==
    /\ QueryReturned
    /\ last.memory_types = <<"constraint", "decision", "error">>
    /\ last.limit = 2
    /\ Len(last.result) = 2
    /\ last.result[1].type = "error"
    /\ last.result[1].usage_count = 3

(***************************************************************************)
(* Properties of Parameters                                                *)
(***************************************************************************)

ParametersReturned == last.op = "parameters"

\* the base temperature of a stage, hundredths
base_temperature(layer) ==
    CASE layer = 1 -> 80 [] layer = 2 -> 60 [] layer = 3 -> 40
      [] layer = 4 -> 30 [] layer = 5 -> 50 [] OTHER -> 70

\* C23: for every stage, complexity level and industry the temperature is
\* within [0.1, 1.0] and is the base temperature of the stage plus 0.1 (low),
\* plus 0 (medium) or minus 0.1 (high); the depth is basic, standard or
\* comprehensive accordingly; a stage outside 1..5 starts from 4000 tokens,
\* temperature 0.7 and no focus areas.
C23_TemperatureAndDepthByComplexity ==
    ParametersReturned =>
        LET r == last.result
            level == calculate_project_complexity(project).overall
        IN /\ r.temperature >= 10 /\ r.temperature <= 100
           /\ r.temperature = base_temperature(last.layer)
                              + (CASE level = "low" -> 10
                                   [] level = "medium" -> 0
                                   [] level = "high" -> -10)
           /\ r.depth = (CASE level = "low" -> "basic"
                           [] level = "medium" -> "standard"
                           [] level = "high" -> "comprehensive")
           /\ last.layer \notin 1..5 =>
                /\ r.max_tokens = (CASE level = "low" -> 3200
                                     [] level = "medium" -> 4000
                                     [] level = "high" -> 6000)
                /\ r.focus_areas = <<>>

\* a high complexity healthcare project at stage 4, and at a stage outside
\* the table
C23_Witness ==
    /\ ParametersReturned
    /\ calculate_project_complexity(project).overall = "high"
    /\ calculate_project_complexity(project).industry = "healthcare"
    /\ last.layer \in {4, 7}
    /\ last.result.temperature \in {20, 60}

(***************************************************************************)
(* Properties of CreateMemory                                              *)
(***************************************************************************)

CreateReturned == last.op = "create"

\* the priority the specification gives each memory type
priority_of_type(type) ==
    CASE type = "constraint" -> "critical"
      [] type \in {"decision", "error"} -> "high"
      [] type \in {"insight", "preference", "artifact"} -> "medium"
      [] type = "context" -> "low"
      [] OTHER -> "none"

RecognizedTypes ==
    {"decision", "constraint", "insight", "error", "preference", "context",
     "artifact"}

\* C21: every record CreateMemory returns has the priority the static table
\* gives its stored type; a type that is not recognized is stored as context
\* with priority low; the usage count is 0 and last accessed is empty.
C21_PriorityFromTypeTable ==
    CreateReturned =>
        /\ last.result.type =
              (IF last.memory_type \in RecognizedTypes THEN last.memory_type
               ELSE "context")
        /\ last.result.priority = priority_of_type(last.result.type)
        /\ last.result.usage_count = 0
        /\ last.result.last_accessed = "None"
        /\ \A i \in 1..Len(created) :
              /\ created[i].priority = priority_of_type(created[i].type)
              /\ created[i].usage_count = 0
              /\ created[i].last_accessed = "None"

\* a record of an unrecognized type after a constraint record
C21_Witness ==
    /\ CreateReturned
    /\ last.memory_type = "note"
    /\ last.result.type = "context"
    /\ Len(created) = 2
    /\ created[1].type = "constraint"

\* C28: no two records created by CreateMemory have the same id, also when
\* they are created by the same session from the same source stage.
C28_MemoryIdsUnique ==
    \A i, j \in 1..Len(created) :
        i # j => created[i].id # created[j].id

(***************************************************************************)
(* Properties of HACFSession.next_layer                                    *)
(***************************************************************************)

\* C30: a session that sets current_layer to next_layer again and again
\* walks its stored sequence position by position: after n steps it is at
\* entry n + 1, and next_layer is None at the last entry and nowhere before,
\* so the walk ends after at most len(sequence) - 1 steps; for every plan of
\* PlanInitialSequence, also one with a repeated stage ID.
C30_WalkFollowsSequence ==
    LET sequence == layer_sequence_list(session)
    IN /\ last.steps <= Len(sequence) - 1
       /\ session.current_layer = sequence[last.steps + 1]
       /\ (next_layer(session) = None) <=> (last.steps = Len(sequence) - 1)

====
